---- MODULE Spec2Model ----
(***************************************************************************)
(* One serverless worker of the kiss-video repository.  The worker runs    *)
(* one of the handler scripts (variant) and answers one job after the      *)
(* other.  A job walks through the steps of that script's handler():       *)
(* dispatch, image download/decoding, model loading, per-frame generation, *)
(* video encoding, packaging, and - where the script has one - the         *)
(* morphing fallback.  Every outcome the environment decides (network,     *)
(* volume contents, pipeline call, video writer, upload sink) is a         *)
(* nondeterministic choice.                                                *)
(***************************************************************************)
EXTENDS Integers, Sequences, FiniteSets, TLC

\* ------------------------------------------------------------------ bounds
\* frames asked of the AI generator per request (num_frames, 24 in the code)
NumFrames == 2
\* frames of the morphing fallback (48 in the code)
MorphFrames == 2

\* ---------------------------------------------------------------- variants
Serverless == "handler.serverless.py"
Legacy     == "handler_serverless.py"
Production == "handler.production.py"
Basic      == "handler.py"
RealAi     == "handler_real_ai.py"
Variants   == {Serverless, Legacy, Production, Basic, RealAi}

VARIABLES
    variant,       \* the handler script this worker runs
    model_cache,   \* the module-global _model_cache entry ("empty" when unset)
    job,           \* the job being handled
    pc,            \* position inside handler()
    phase,         \* "ai": the try body, "fallback": the except body
    src, tgt,      \* the decoded source / target image ("none" or "image")
    nDecode,       \* fetch/decode attempts of this request, per image
    nLoad,         \* model-load calls of this request
    nCalls,        \* pipeline calls of this request
    nFallback,     \* entries into the morphing fallback of this request
    loadOutcome,   \* what the model load / model validation of this request found
    pipeline,      \* the model object the request generates with
    frames,        \* frames of the AI generator, each tagged with its producer
    morph,         \* frames of the morphing fallback
    file,          \* the encoder's output file
    nUpload,       \* uploads attempted by this request
    video_result,  \* what create_video_from_frames returned
    err,           \* the exception that ended the AI path
    resp,          \* the dict handler() returned
    stray,         \* temporary files this call created and left behind
    temp_image,    \* main.py: the temporary JPEG of the source image
    models,        \* main.py: the dict load_kiss_models() returned
    model_name,    \* main.py: job_input.get('model', 'remade_ai')
    writer,        \* the cv2.VideoWriter of the current create_video_from_frames call
    written,       \* the frames handed to video_writer.write, by index, in call order
    morph_call,    \* one iteration of the morphing loop: frame count, index, pixels
    blended,       \* the pixel values it appended (none or one)
    prep_call,     \* one call of preprocess_image: the image's size and the target size
    prep_result,   \* the geometry of the image it returned (none or one)
    model_dirs,    \* main.py: what the model directories under MODEL_CACHE_DIR hold
    downloads,     \* main.py: the download threads that are still running
    gen_call,      \* frame generation run more than once: the images and the frame count
    np_random,     \* the state of numpy's global random generator on this worker
    runs           \* the frame lists of the runs so far, each with its arguments

vars == <<variant, model_cache, job, pc, phase, src, tgt, nDecode, nLoad, nCalls,
          nFallback, loadOutcome, pipeline, frames, morph, file, nUpload,
          video_result, err, resp, stray, temp_image, models, model_name,
          writer, written, morph_call, blended, prep_call, prep_result,
          model_dirs, downloads, gen_call, np_random, runs>>

\* the locals of main.py's handler that the other scripts do not have
mainVars == <<temp_image, models, model_name, model_dirs, downloads>>

\* the state of the encoder's writer
encoderVars == <<writer, written>>

\* the arguments and results of the image functions when they are run on their own
libraryVars == <<morph_call, blended, prep_call, prep_result, gen_call, np_random, runs>>

\* ------------------------------------------------------------------- jobs
\* A field of the job input: absent, raw base64 of an image ("b64"),
\* malformed base64 ("bad"), a data-URL of an image ("data"), an HTTP(S) URL.
ImageValues == {"absent", "b64", "bad", "data", "http"}
UrlValues   == {"absent", "data", "http"}
FormatValues == {"absent", "base64", "url", "gif"}
DebugValues == {"absent", "check_volume", "check_gpu", "check_models", "other"}

Job(inp, hc, tm, dbg, si, ti, su, tu, fmt) ==
    [input |-> inp, health_check |-> hc, test_mode |-> tm, debug |-> dbg,
     source_image |-> si, target_image |-> ti,
     source_image_url |-> su, target_image_url |-> tu, output_format |-> fmt]

\* job = None, or job["input"] = None
NullJob == Job("null", FALSE, FALSE, "absent", "absent", "absent", "absent", "absent", "absent")

\* generation requests: no control flag set
LegacyPairJobs ==
    { Job("dict", FALSE, FALSE, "absent", si, ti, "absent", "absent", fmt) :
        si \in ImageValues, ti \in ImageValues, fmt \in FormatValues }
UrlPairJobs ==
    { Job("dict", FALSE, FALSE, "absent", p[1], p[2], su, tu, fmt) :
        p \in {<<"absent", "absent">>, <<"b64", "b64">>, <<"absent", "b64">>, <<"b64", "absent">>},
        su \in UrlValues, tu \in UrlValues, fmt \in {"absent", "url"} }
\* control requests, with and without image fields beside the flag
ControlJobs ==
    { Job("dict", hc, tm, dbg, i, i, u, u, "absent") :
        hc \in BOOLEAN, tm \in BOOLEAN, dbg \in DebugValues,
        i \in {"absent", "b64"}, u \in {"absent", "http"} }

\* the fields a script never reads are left absent
Reads(v) ==
    CASE v = Serverless -> {"health_check", "test_mode", "debug", "source_image", "target_image",
                            "source_image_url", "target_image_url", "output_format"}
      [] v = RealAi     -> {"health_check", "source_image_url", "target_image_url", "output_format"}
      [] OTHER          -> {"health_check", "test_mode", "source_image", "target_image"}

Unread(j, f) == j[f] = (IF f \in {"health_check", "test_mode"} THEN FALSE ELSE "absent")

Jobs(v) ==
    { j \in {NullJob} \cup LegacyPairJobs \cup UrlPairJobs \cup ControlJobs :
        \A f \in DOMAIN j \ ({"input"} \cup Reads(v)) : Unread(j, f) }

\* Python truthiness of job_input.get(field)
Present(j, f) == j[f] # "absent"

\* ------------------------------------------------------------- dictionaries
EmptyDict == [k \in {} |-> "none"]
Has(d, k) == k \in DOMAIN d
Get(d, k, default) == IF k \in DOMAIN d THEN d[k] ELSE default

\* the image functions have not been called on their own
NoMorphCall == [n |-> 0, i |-> 0, s |-> 0, t |-> 0]
NoPrepCall  == [w |-> 0, h |-> 0, target_w |-> 0, target_h |-> 0]
NoGenCall   == [path |-> "none", n |-> 0, s |-> 0, t |-> 0, m |-> 0]

\* main.py: the keys of model_configs
ModelKeys == {"wan_ai", "remade_ai"}

\* main.py's model directories and download threads, for the scripts that
\* have neither
NoModelDirs == [wan_ai |-> "empty", remade_ai |-> "empty"]
NoDownloads == [wan_ai |-> FALSE, remade_ai |-> FALSE]

\* ---------------------------------------------------------------- Init
Init ==
    /\ variant \in Variants
    /\ model_cache = "empty"
    /\ job = NullJob
    /\ pc = "idle"
    /\ phase = "ai"
    /\ src = "none" /\ tgt = "none"
    /\ nDecode = [source |-> 0, target |-> 0]
    /\ nLoad = 0 /\ nCalls = 0 /\ nFallback = 0
    /\ loadOutcome = "none"
    /\ pipeline = "none"
    /\ frames = <<>> /\ morph = <<>>
    /\ file = "none"
    /\ nUpload = 0
    /\ video_result = "none"
    /\ err = "none"
    /\ resp = EmptyDict
    /\ stray = 0
    /\ temp_image = "none" /\ models = "none" /\ model_name = "none"
    /\ model_dirs = NoModelDirs /\ downloads = NoDownloads
    /\ writer = "none" /\ written = <<>>
    /\ morph_call = NoMorphCall /\ blended = <<>>
    /\ prep_call = NoPrepCall /\ prep_result = <<>>
    /\ gen_call = NoGenCall /\ np_random = 0 /\ runs = <<>>


\* ------------------------------------------------------ input resolution
\* What download_image_from_url does with a string: an HTTP(S) URL is fetched
\* (the network decides), a data-URL of an image decodes, anything else fails.
UrlForm(v) ==
    CASE v = "http" -> "http"
      [] v = "data" -> "data_ok"
      [] OTHER      -> "bad"

\* What base64.b64decode + Image.open do with a string: only the raw base64 of
\* an image decodes (a URL, a data-URL, malformed text or None do not).
Base64Form(v) == IF v = "b64" THEN "data_ok" ELSE "bad"

\* handler.serverless.py: the pair of URLs handed to generate_ai_kiss_video
ServerlessResolve(j) ==
    IF Present(j, "source_image_url") /\ Present(j, "target_image_url")
    THEN [ok |-> TRUE, source |-> UrlForm(j.source_image_url),
                      target |-> UrlForm(j.target_image_url)]
    ELSE IF Present(j, "source_image") /\ Present(j, "target_image")
    THEN IF j.source_image \in {"http", "data"}
         THEN \* the form of source_image decides for both fields
              [ok |-> TRUE, source |-> UrlForm(j.source_image),
                            target |-> UrlForm(j.target_image)]
         ELSE \* both are wrapped as data:image/jpeg;base64,<text>
              [ok |-> TRUE, source |-> Base64Form(j.source_image),
                            target |-> Base64Form(j.target_image)]
    ELSE [ok |-> FALSE, source |-> "bad", target |-> "bad"]

SourceForm ==
    CASE variant = Serverless -> ServerlessResolve(job).source
      [] variant = RealAi     -> UrlForm(job.source_image_url)
      [] OTHER                -> Base64Form(job.source_image)

TargetForm ==
    CASE variant = Serverless -> ServerlessResolve(job).target
      [] variant = RealAi     -> UrlForm(job.target_image_url)
      [] OTHER                -> Base64Form(job.target_image)

\* return_url = (output_format == 'url'), in the two scripts that read it
ReturnUrl(v, j) == v \in {Serverless, RealAi} /\ j.output_format = "url"

\* the outcomes of one fetch/decode of an image of the given form
DecodeOutcomes(form) ==
    CASE form = "http"    -> {"ok", "fails"}
      [] form = "data_ok" -> {"ok"}
      [] OTHER            -> {"fails"}

\* ------------------------------------------------------------ environment
\* what the probes of one call find on the worker
Envs == [cuda_available : BOOLEAN, volume_mounted : BOOLEAN,
         wan_model_exists : BOOLEAN, probe_raises : BOOLEAN]

\* ----------------------------------------------------- control responses
\* handler.serverless.py / handler_serverless.py health_check()
ServerlessHealthCheck(env) ==
    IF env.probe_raises
    THEN [status |-> "unhealthy", error |-> "probe", timestamp |-> "now"]
    ELSE [status |-> IF env.cuda_available /\ env.volume_mounted /\ env.wan_model_exists
                     THEN "healthy" ELSE "unhealthy",
          timestamp |-> "now",
          environment |-> [cuda_available |-> env.cuda_available,
                           volume_mounted |-> env.volume_mounted,
                           wan_model_exists |-> env.wan_model_exists],
          models_ready |-> env.wan_model_exists]

\* handler.production.py check_environment(): the keys of env_info
ProductionCheckEnvironment(env) ==
    [cuda_available |-> env.cuda_available, volume_mounted |-> env.volume_mounted,
     wan_model_exists |-> env.wan_model_exists]

\* handler.production.py health_check(): env_info has no key "torch_available"
ProductionHealthCheck(env, cache) ==
    IF env.probe_raises
    THEN [status |-> "unhealthy", error |-> "probe", timestamp |-> "now"]
    ELSE LET env_info == ProductionCheckEnvironment(env) IN
         [status |-> IF /\ Get(env_info, "torch_available", FALSE)
                        /\ Get(env_info, "cuda_available", FALSE)
                        /\ Get(env_info, "volume_mounted", FALSE)
                        /\ Get(env_info, "wan_model_exists", FALSE)
                     THEN "healthy" ELSE "unhealthy",
          timestamp |-> "now",
          environment |-> env_info,
          model_cache_status |-> IF cache # "empty" THEN "loaded" ELSE "not_loaded"]

\* a handler whose except clause lets the exception through to the runtime
HandlerExceptReraise(v, e) == [uncaught |-> e]

\* the except clause of handler(): the dict returned for an exception e
HandlerExcept(v, e) ==
    CASE v = RealAi -> [status |-> "error", error |-> e]
      [] v = Basic  -> [status |-> "error", error |-> e, traceback |-> "tb",
                        environment |-> "env", handler_version |-> "guaranteed_working_v1.0"]
      [] v = Production -> [status |-> "error", error |-> e, traceback |-> "tb",
                            handler_version |-> "production_v1.0"]
      [] OTHER      -> [status |-> "error", error |-> e, traceback |-> "tb",
                        deployment_mode |-> "serverless_network_volume"]

TestModeResponse(v, env) ==
    IF env.probe_raises
    THEN HandlerExcept(v, "probe")
    ELSE [status |-> "success", message |-> "ready",
          environment |-> [cuda_available |-> env.cuda_available,
                           volume_mounted |-> env.volume_mounted,
                           wan_model_exists |-> env.wan_model_exists]]

\* explore_volume_structure / check_gpu_compatibility / debug_model_structure
DebugResponse(dbg, env) ==
    CASE dbg = "check_volume" ->
            IF env.probe_raises THEN [status |-> "debug_error", error |-> "probe"]
            ELSE [status |-> "debug_complete", message |-> "explored", volume_info |-> "info"]
      [] dbg = "check_gpu" ->
            IF env.probe_raises THEN [status |-> "gpu_debug_error", error |-> "probe"]
            ELSE [status |-> "gpu_debug_complete", gpu_info |-> "info"]
      [] OTHER ->
            IF env.probe_raises THEN [status |-> "model_debug_error", error |-> "probe"]
            ELSE [status |-> "model_debug_complete", message |-> "analysed", model_info |-> "info"]

MissingImagesResponse(v) ==
    CASE v = RealAi ->
            [status |-> "error", error |-> "Both source_image_url and target_image_url required"]
      [] v = Serverless ->
            [status |-> "error", error |-> "Both source_image_url and target_image_url required",
             usage |-> "usage"]
      [] OTHER ->
            [status |-> "error", error |-> "Both source_image and target_image required",
             usage |-> "usage"]

\* handler.py create_test_video(): the video, or the text of its own exception
TestVideos == {"test_video", "error_text"}

\* handler.py validate_models(): models_found
BasicModelsFound(env, complete) ==
    env.volume_mounted /\ env.wan_model_exists /\ complete

\* ------------------------------------------------------------- dispatch
\* handler() up to the call of the generation function: either the dict it
\* returns at once (goto "done") or the step it continues with.
Stop(r)  == [goto |-> "done", resp |-> r, found |-> "none"]

\* a dispatch that looks at the image fields ahead of the control flags
ServerlessDispatchImagesFirst(j, env) ==
    IF j.input = "null" THEN Stop(HandlerExcept(Serverless, "AttributeError"))
    ELSE IF ServerlessResolve(j).ok
         THEN [goto |-> "decode", resp |-> EmptyDict, found |-> "none"]
    ELSE IF j.health_check THEN Stop(ServerlessHealthCheck(env))
    ELSE IF j.test_mode THEN Stop(TestModeResponse(Serverless, env))
    ELSE IF j.debug \in {"check_volume", "check_gpu", "check_models"}
         THEN Stop(DebugResponse(j.debug, env))
    ELSE Stop(MissingImagesResponse(Serverless))

\* handler.serverless.py handler(): health_check, test_mode, the three debug
\* values, then the image fields
ServerlessDispatch(j, env) ==
    IF j.input = "null" THEN Stop(HandlerExcept(Serverless, "AttributeError"))
    ELSE IF j.health_check THEN Stop(ServerlessHealthCheck(env))
    ELSE IF j.test_mode THEN Stop(TestModeResponse(Serverless, env))
    ELSE IF j.debug \in {"check_volume", "check_gpu", "check_models"}
         THEN Stop(DebugResponse(j.debug, env))
    ELSE IF ~ServerlessResolve(j).ok THEN Stop(MissingImagesResponse(Serverless))
    ELSE [goto |-> "decode", resp |-> EmptyDict, found |-> "none"]

LegacyDispatch(v, j, env, cache) ==
    IF j.input = "null" THEN Stop(HandlerExcept(v, "AttributeError"))
    ELSE IF j.health_check
         THEN Stop(IF v = Production THEN ProductionHealthCheck(env, cache)
                                     ELSE ServerlessHealthCheck(env))
    ELSE IF j.test_mode THEN Stop(TestModeResponse(v, env))
    ELSE IF ~Present(j, "source_image") \/ ~Present(j, "target_image")
         THEN Stop(MissingImagesResponse(v))
    ELSE [goto |-> "decode", resp |-> EmptyDict, found |-> "none"]

BasicDispatch(j, env, complete, tv) ==
    IF j.input = "null" THEN Stop(HandlerExcept(Basic, "AttributeError"))
    ELSE IF j.test_mode \/ j.health_check
         THEN Stop([status |-> "success", message |-> "Health check completed",
                    environment |-> "env",
                    model_validation |-> BasicModelsFound(env, complete),
                    handler_version |-> "guaranteed_working_v1.0"])
    ELSE IF ~Present(j, "source_image") /\ ~Present(j, "target_image")
         THEN Stop([status |-> "success", message |-> "Test video generated successfully",
                    video |-> tv, note |-> "test video"])
    ELSE IF ~BasicModelsFound(env, complete)
         THEN [goto |-> "done", found |-> "missing",
               resp |-> [status |-> "error", error |-> "Models not available on volume",
                         details |-> "validation", solution |-> "mount the volume"]]
    ELSE [goto |-> "decode", resp |-> EmptyDict, found |-> "validated"]

RealAiDispatch(j, cache) ==
    IF j.input = "null" THEN Stop(HandlerExcept(RealAi, "AttributeError"))
    ELSE IF j.health_check
         THEN Stop([status |-> "healthy", message |-> "Real AI handler ready",
                    models_loaded |-> (cache # "empty")])
    ELSE IF ~Present(j, "source_image_url") \/ ~Present(j, "target_image_url")
         THEN Stop(MissingImagesResponse(RealAi))
    ELSE [goto |-> "decode", resp |-> EmptyDict, found |-> "none"]

Dispatch(v, j, env, complete, tv, cache) ==
    CASE v = Serverless -> ServerlessDispatch(j, env)
      [] v = Basic      -> BasicDispatch(j, env, complete, tv)
      [] v = RealAi     -> RealAiDispatch(j, cache)
      [] OTHER          -> LegacyDispatch(v, j, env, cache)

\* handler(job): a new job arrives; everything request-local starts afresh
Handler ==
    /\ pc = "idle"
    /\ \E j \in Jobs(variant), env \in Envs, complete \in BOOLEAN, tv \in TestVideos :
         LET d == Dispatch(variant, j, env, complete, tv, model_cache) IN
         /\ job' = j
         /\ pc' = d.goto
         /\ resp' = d.resp
         /\ loadOutcome' = d.found
    /\ phase' = "ai"
    /\ src' = "none" /\ tgt' = "none"
    /\ nDecode' = [source |-> 0, target |-> 0]
    /\ nLoad' = 0 /\ nCalls' = 0 /\ nFallback' = 0
    /\ pipeline' = "none"
    /\ frames' = <<>> /\ morph' = <<>>
    /\ file' = "none"
    /\ nUpload' = 0
    /\ video_result' = "none"
    /\ err' = "none"
    /\ stray' = 0
    /\ writer' = "none" /\ written' = <<>>
    /\ UNCHANGED <<variant, model_cache>>
    /\ UNCHANGED <<mainVars, libraryVars>>


\* ------------------------------------------------------------- responses
Inline(vr) == vr \in {"b64", "b64_empty"}

\* the try body's result without the branch for a failed upload
ServerlessSuccessNoUploadNote(j, fr, vr) ==
    [status |-> "success", message |-> "REAL AI Kiss video generated",
     processing_time |-> "t", num_frames |-> Len(fr),
     model_used |-> "Wan-AI 14B I2V + Kissing LoRA (Real AI Implementation)",
     model_source |-> "network_volume_ai_models", resolution |-> "512x512",
     note |-> "Real AI models loaded"]
    @@ (IF vr = "url" THEN [video_url |-> "link"] ELSE [video |-> vr])

\* handler.serverless.py generate_ai_kiss_video, the try body's result
ServerlessSuccess(j, fr, vr) ==
    LET base == [status |-> "success", message |-> "REAL AI Kiss video generated",
                 processing_time |-> "t", num_frames |-> Len(fr),
                 model_used |-> "Wan-AI 14B I2V + Kissing LoRA (Real AI Implementation)",
                 model_source |-> "network_volume_ai_models", resolution |-> "512x512"]
    IN IF ReturnUrl(Serverless, j)
       THEN IF vr = "url"
            THEN base @@ [video_url |-> "link", video_filename |-> "name",
                          file_size_bytes |-> "size", expires_in |-> "7 days",
                          note |-> "Real AI models loaded"]
            ELSE base @@ [video |-> vr,
                          note |-> "Real AI models loaded (Upload failed, returned base64 instead)"]
       ELSE base @@ [video |-> vr, note |-> "Real AI models loaded"]

\* handler.serverless.py generate_ai_kiss_video, the fallback's result
ServerlessFallback(j, vr, e) ==
    LET base == [status |-> "fallback_success", processing_time |-> "t",
                 model_used |-> "morphing_fallback", error |-> e]
    IN IF ReturnUrl(Serverless, j) /\ vr = "url"
       THEN base @@ [video_url |-> "link", video_filename |-> "name", file_size_bytes |-> "size"]
       ELSE IF ReturnUrl(Serverless, j)
            THEN base @@ [video |-> vr, note |-> "Upload failed, returned base64 instead"]
            ELSE base @@ [video |-> vr]

\* handler_serverless.py / handler.production.py generate_ai_kiss_video
LegacySuccess(v, fr, vr) ==
    [status |-> "success", video |-> vr, processing_time |-> "t", num_frames |-> Len(fr),
     model_used |-> "Wan2.1-I2V-14B-720P", resolution |-> "512x512"]
    @@ (IF v = Production THEN [fps |-> 24]
        ELSE [message |-> "AI kiss video generated using network volume models",
              model_source |-> "network_volume"])

LegacyFallback(vr, e) ==
    [status |-> "fallback_success", video |-> vr, processing_time |-> "t",
     model_used |-> "morphing_fallback", error |-> e]

\* the fallback failed as well
FallbackError(e, fe) ==
    [status |-> "error", error |-> e, fallback_error |-> fe, processing_time |-> "t"]

\* a result that keeps the inline video beside the uploaded one
RealAiSuccessBothFields(j, fr, vr) ==
    [status |-> "success", message |-> "REAL AI kiss video generated",
     processing_time |-> "t", num_frames |-> Len(fr),
     model_used |-> "Wan-AI 14B I2V + Kissing LoRA",
     model_source |-> "real_ai_models", resolution |-> "512x512",
     prompt_used |-> "k144ing kissing", video |-> "b64"]
    @@ (IF vr = "url" THEN [video_url |-> "link"] ELSE EmptyDict)

\* handler_real_ai.py generate_real_ai_kiss_video
RealAiSuccess(j, fr, vr) ==
    LET base == [status |-> "success", message |-> "REAL AI kiss video generated",
                 processing_time |-> "t", num_frames |-> Len(fr),
                 model_used |-> "Wan-AI 14B I2V + Kissing LoRA",
                 model_source |-> "real_ai_models", resolution |-> "512x512",
                 prompt_used |-> "k144ing kissing"]
    IN IF ReturnUrl(RealAi, j) /\ vr = "url"
       THEN base @@ [video_url |-> "link", filename |-> "name", file_size |-> "size",
                     expires_in |-> "7 days"]
       ELSE IF ReturnUrl(RealAi, j)
            THEN base @@ [video |-> vr, note |-> "Upload failed, returned base64 instead"]
            ELSE base @@ [video |-> vr]

RealAiError(e) ==
    [status |-> "error", error |-> e, processing_time |-> "t",
     model_attempted |-> "Wan-AI 14B I2V + Kissing LoRA"]

\* handler.py handler(), the two returns around generate_ai_kiss_video
BasicSuccess(vr) ==
    [status |-> "success", message |-> "AI kiss video generated successfully", video |-> vr,
     model_used |-> "Wan2.1-I2V-14B-720P", processing_time |-> "varies",
     model_validation |-> TRUE]

BasicPartialSuccess(tv, e) ==
    [status |-> "partial_success", message |-> "AI generation failed, returning test video",
     video |-> tv, error |-> e, model_used |-> "fallback_test", model_validation |-> TRUE]

\* ----------------------------------------------------------- control flow
\* the step succeeded: go on with the next statement
Continue(next) ==
    /\ pc' = next
    /\ UNCHANGED <<phase, err, nFallback, resp>>

\* the function returns its dict and handler() hands it to the runtime
Return(r) ==
    /\ pc' = "done"
    /\ resp' = r
    /\ UNCHANGED <<phase, err, nFallback>>

\* an except body that starts the fallback again when the fallback raised
RaiseWithFallbackRetry(e) ==
    IF nFallback < 2
    THEN /\ pc' = "decode"
         /\ phase' = "fallback"
         /\ err' = (IF phase = "ai" THEN e ELSE err)
         /\ nFallback' = nFallback + 1
         /\ UNCHANGED resp
    ELSE /\ pc' = "done"
         /\ resp' = FallbackError(err, e)
         /\ UNCHANGED <<phase, err, nFallback>>

\* handler_serverless.py, handler.production.py, handler.serverless.py: an
\* exception in the try body enters the except body, which decodes the images
\* again; an exception in the except body returns the error dict.
RaiseWithFallback(e) ==
    IF phase = "ai"
    THEN /\ pc' = "decode"
         /\ phase' = "fallback"
         /\ err' = e
         /\ nFallback' = nFallback + 1
         /\ UNCHANGED resp
    ELSE /\ pc' = "done"
         /\ resp' = FallbackError(err, e)
         /\ UNCHANGED <<phase, err, nFallback>>

\* handler_real_ai.py: one except clause, no fallback
RaiseRealAi(e) ==
    /\ pc' = "done"
    /\ resp' = RealAiError(e)
    /\ UNCHANGED <<phase, err, nFallback>>

\* handler.py: the decoding stands before the try of generate_ai_kiss_video, so
\* its exception reaches handler(); an exception inside the try calls
\* create_morphing_video, whose own exception reaches handler() too.
RaiseBasic(e) ==
    IF phase = "ai" /\ pc # "decode"
    THEN /\ pc' = "morph"
         /\ phase' = "fallback"
         /\ err' = e
         /\ nFallback' = nFallback + 1
         /\ UNCHANGED resp
    ELSE /\ pc' = "done"
         /\ \E tv \in TestVideos : resp' = BasicPartialSuccess(tv, e)
         /\ UNCHANGED <<phase, err, nFallback>>

Raise(e) ==
    CASE variant = RealAi -> RaiseRealAi(e)
      [] variant = Basic  -> RaiseBasic(e)
      [] OTHER            -> RaiseWithFallback(e)

\* ------------------------------------------------------------ the steps
\* download_image_from_url(source), then (target); or b64decode + Image.open
DownloadImages ==
    /\ pc = "decode"
    /\ \E so \in DecodeOutcomes(SourceForm), to \in DecodeOutcomes(TargetForm) :
         /\ nDecode' = [source |-> nDecode.source + 1,
                        target |-> IF so = "ok" THEN nDecode.target + 1 ELSE nDecode.target]
         /\ IF so = "ok" /\ to = "ok"
            THEN /\ src' = "image" /\ tgt' = "image"
                 /\ Continue(IF phase = "ai" THEN "load" ELSE "morph")
            ELSE /\ src' = (IF so = "ok" THEN "image" ELSE src)
                 /\ tgt' = tgt
                 /\ Raise("decode")
    /\ UNCHANGED <<variant, model_cache, job, nLoad, nCalls, loadOutcome, pipeline,
                   frames, morph, file, nUpload, video_result, stray>>
    /\ UNCHANGED <<mainVars, encoderVars, libraryVars>>

\* what a first load of the script can end with
LoadOutcomes(v) ==
    CASE v = Serverless -> {"missing", "cuda_old", "no_config", "mock", "real", "real_raises"}
      [] v = Basic      -> {"real", "real_raises"}
      [] v = RealAi     -> {"wan_model", "load_failed"}
      [] OTHER          -> {"missing", "real", "real_raises"}

\* a loader that writes the outcome of every first load into the cache
CacheAfterLoadAnyOutcome(v, cache, o) == IF v = Basic THEN cache ELSE o

\* a loader whose except clause returns the stand-in without caching it
CacheAfterLoadNoStandIn(v, cache, o) ==
    IF o \in {"mock", "real", "wan_model"} /\ v # Basic THEN o ELSE cache

\* _model_cache after a first load that ended with o: the loaders assign the
\* entry as their last statement before the return (handler.py keeps no
\* cache); handler_real_ai.py assigns the morphing stand-in in its except
\* clause; every other failure leaves the dict as it was
CacheAfterLoad(v, cache, o) ==
    CASE o \in {"mock", "real", "wan_model"} -> (IF v = Basic THEN cache ELSE o)
      [] o = "load_failed"                   -> "morph_model"
      [] OTHER                               -> cache

\* load_ai_models / load_wan_ai_model / load_real_ai_models, and the pipeline
\* loading at the head of handler.py's try
LoadModels ==
    /\ pc = "load"
    /\ nLoad' = nLoad + 1
    /\ IF model_cache # "empty"
       THEN /\ pipeline' = model_cache
            /\ loadOutcome' = "cached"
            /\ UNCHANGED model_cache
            /\ Continue("preprocess")
       ELSE \E o \in LoadOutcomes(variant) :
            /\ loadOutcome' = o
            /\ model_cache' = CacheAfterLoad(variant, model_cache, o)
            /\ CASE o \in {"mock", "real", "wan_model"} ->
                      /\ pipeline' = o
                      /\ Continue("preprocess")
                 [] o = "load_failed" ->
                      \* handler_real_ai.py returns the morphing stand-in
                      /\ pipeline' = "morph_model"
                      /\ Continue("preprocess")
                 [] OTHER ->
                      /\ UNCHANGED pipeline
                      /\ Raise("load")
    /\ UNCHANGED <<variant, job, src, tgt, nDecode, nCalls, frames, morph, file,
                   nUpload, video_result, stray>>
    /\ UNCHANGED <<mainVars, encoderVars, libraryVars>>

\* preprocess_image / resize of both images, ahead of the frame loop
PreprocessImages ==
    /\ pc = "preprocess"
    /\ \E ok \in BOOLEAN :
         IF ok THEN Continue("frames") ELSE Raise("generate")
    /\ UNCHANGED <<variant, model_cache, job, src, tgt, nDecode, nLoad, nCalls, loadOutcome,
                   pipeline, frames, morph, file, nUpload, video_result, stray>>
    /\ UNCHANGED <<mainVars, encoderVars, libraryVars>>

\* the frame a script appends when the pipeline call of that frame raises
\* ("raise": the exception leaves the loop)
FrameOnFailure(v) ==
    CASE v = Serverless           -> "control"
      [] v \in {Legacy, Production} -> "blend"
      [] OTHER                    -> "raise"

\* the frame a successful iteration appends
FrameOnSuccess(v, p) ==
    IF v = RealAi
    THEN (IF p = "wan_model" THEN "simulated_morph" ELSE "enhanced_morph")
    ELSE "ai"

\* height x width of the frames the scripts work on
Resolution == <<512, 512>>

\* a substitute frame taken from the image as it was downloaded
FrameSizeUnprocessed(kind) ==
    IF kind \in {"control", "blend"} THEN <<480, 640>> ELSE Resolution

\* the shape of a frame by its producer: the pipeline is called with
\* height=512, width=512 (the mock pipeline returns the shape of its input,
\* the preprocessed control image); a substitute is the preprocessed control
\* image or a blend of the two preprocessed images; the morphing loops blend
\* the images resized to (512, 512)
FrameSize(kind) ==
    CASE kind = "ai"      -> Resolution
      [] kind = "control" -> Resolution
      [] kind = "blend"   -> Resolution
      [] OTHER            -> Resolution

\* one iteration of the frame loop
GenerateFrame ==
    /\ pc = "frames"
    /\ Len(frames) < NumFrames
    /\ nCalls' = (IF variant = RealAi THEN nCalls ELSE nCalls + 1)
    /\ \E ok \in BOOLEAN :
         IF ok
         THEN /\ frames' = Append(frames, FrameOnSuccess(variant, pipeline))
              /\ Continue(IF Len(frames) + 1 = NumFrames THEN "encode" ELSE "frames")
         ELSE IF FrameOnFailure(variant) = "raise"
              THEN /\ UNCHANGED frames
                   /\ Raise("generate")
              ELSE /\ frames' = Append(frames, FrameOnFailure(variant))
                   /\ Continue(IF Len(frames) + 1 = NumFrames THEN "encode" ELSE "frames")
    /\ UNCHANGED <<variant, model_cache, job, src, tgt, nDecode, nLoad, loadOutcome,
                   pipeline, morph, file, nUpload, video_result, stray>>
    /\ UNCHANGED <<mainVars, encoderVars, libraryVars>>

\* the names the import statements at the top of a script bind in its module
\* scope; handler.py imports torch, cv2, numpy, PIL and io inside
\* check_environment and generate_ai_kiss_video, where they are locals
ModuleNames(v) ==
    IF v = Basic
    THEN {"os", "json", "base64", "tempfile", "sys", "runpod"}
    ELSE {"os", "json", "base64", "tempfile", "sys", "time", "gc", "logging", "runpod",
          "torch", "np", "Image", "cv2", "io", "logger"}

\* the global names the morphing function reads
MorphingNames == {"np", "tempfile", "cv2", "base64", "os"}

\* create_morphing_fallback's frame loop; handler.py's create_morphing_video.
\* A name that is not bound in the module scope raises NameError at its first
\* use, which the function's except clause raises again
CreateMorphingFallback ==
    /\ pc = "morph"
    /\ IF ~(MorphingNames \subseteq ModuleNames(variant))
       THEN /\ UNCHANGED morph
            /\ Raise("NameError")
       ELSE /\ morph' = [i \in 1..MorphFrames |-> "blend"]
            /\ Continue("encode")
    /\ UNCHANGED <<variant, model_cache, job, src, tgt, nDecode, nLoad, nCalls, loadOutcome,
                   pipeline, frames, file, nUpload, video_result, stray>>
    /\ UNCHANGED <<mainVars, encoderVars, libraryVars>>

\* the frames handed to the encoder
EncoderInput == IF phase = "ai" THEN frames ELSE morph

\* what the video writer does with output_path: "raises" is an exception before
\* the file exists (frames[0].shape, the constructor), "raises_midway" one from
\* cvtColor/write after the writer created it; a writer that could not be
\* opened raises nothing and leaves no file or an empty one
WriterOutcomes == {"ok", "raises", "raises_midway", "unopened", "unopened_empty"}

\* the writer after video_writer.release(): nothing in the scripts asks
\* isOpened(), so a writer that never opened is released like any other
WriterAfterRelease(w) ==
    IF w \in {"unopened", "unopened_empty"} THEN "released_unopened" ELSE "released"

Released(wr) == wr \in {"released", "released_unopened"}

\* a writer loop that hands the last frame to the writer at every iteration
FrameWritesLastOnly(fr) == [i \in 1..Len(fr) |-> Len(fr)]

\* for frame in frames: video_writer.write(...): the indices written, in order
FrameWrites(fr) == [i \in 1..Len(fr) |-> i]

\* create_video_from_frames up to video_writer.release()
CreateVideoFromFrames ==
    /\ pc = "encode"
    /\ \E w \in WriterOutcomes :
         IF Len(EncoderInput) = 0 \/ w = "raises"
         THEN /\ file' = "none"
              /\ writer' = "none" /\ written' = <<>>
              /\ UNCHANGED stray
              /\ Raise("encode")
         ELSE IF w = "raises_midway"
         THEN \* nothing removes the half-written file or releases the writer
              /\ file' = "none"
              /\ writer' = "open"
              /\ \E k \in 0..(Len(EncoderInput) - 1) :
                   written' = SubSeq(FrameWrites(EncoderInput), 1, k)
              /\ stray' = stray + 1
              /\ Raise("encode")
         ELSE /\ file' = (CASE w = "ok" -> "video"
                            [] w = "unopened" -> "none"
                            [] OTHER -> "empty")
              /\ writer' = WriterAfterRelease(w)
              /\ written' = FrameWrites(EncoderInput)
              /\ UNCHANGED stray
              /\ Continue("package")
    /\ UNCHANGED <<variant, model_cache, job, src, tgt, nDecode, nLoad, nCalls, loadOutcome,
                   pipeline, frames, morph, nUpload, video_result>>
    /\ UNCHANGED <<mainVars, libraryVars>>

\* the dict generate_*_kiss_video builds around the video
Result(v, j, ph, fr, vr, e) ==
    CASE v = Serverless ->
            IF ph = "ai" THEN ServerlessSuccess(j, fr, vr) ELSE ServerlessFallback(j, vr, e)
      [] v = RealAi -> RealAiSuccess(j, fr, vr)
      [] v = Basic  -> BasicSuccess(vr)
      [] OTHER ->
            IF ph = "ai" THEN LegacySuccess(v, fr, vr) ELSE LegacyFallback(vr, e)

\* reading the written file back: open(output_path, 'rb') and f.read()
ReadOutcomes == {"ok", "fails"}

\* create_video_from_frames after release(): size, upload or read-back, remove;
\* then the caller's result dict
PackageResult ==
    /\ pc = "package"
    /\ IF file = "none"
       THEN \* os.path.getsize / open of a file that was never written
            /\ UNCHANGED <<file, nUpload, video_result, stray>>
            /\ Raise("encode")
       ELSE LET data == IF file = "video" THEN "b64" ELSE "b64_empty" IN
            \E up \in {"ok", "fails"}, rd \in ReadOutcomes :
              /\ nUpload' = (IF ReturnUrl(variant, job) THEN nUpload + 1 ELSE nUpload)
              /\ IF ReturnUrl(variant, job) /\ up = "ok"
                 THEN /\ file' = "removed"
                      /\ video_result' = "url"
                      /\ UNCHANGED stray
                      /\ Return(Result(variant, job, phase, frames, "url", err))
                 ELSE IF rd = "ok"
                 THEN /\ file' = "removed"
                      /\ video_result' = data
                      /\ UNCHANGED stray
                      /\ Return(Result(variant, job, phase, frames, data, err))
                 ELSE \* the exception skips os.remove(output_path)
                      /\ file' = "none"
                      /\ stray' = stray + 1
                      /\ UNCHANGED video_result
                      /\ Raise("encode")
    /\ UNCHANGED <<variant, model_cache, job, src, tgt, nDecode, nLoad, nCalls, loadOutcome,
                   pipeline, frames, morph>>
    /\ UNCHANGED <<mainVars, encoderVars, libraryVars>>

\* runpod.serverless.start: the runtime takes the returned dict as the job's
\* result; the locals of the call are gone, the module globals stay
JobDone ==
    /\ pc = "done"
    /\ pc' = "idle"
    /\ job' = NullJob
    /\ phase' = "ai"
    /\ src' = "none" /\ tgt' = "none"
    /\ nDecode' = [source |-> 0, target |-> 0]
    /\ nLoad' = 0 /\ nCalls' = 0 /\ nFallback' = 0
    /\ loadOutcome' = "none"
    /\ pipeline' = "none"
    /\ frames' = <<>> /\ morph' = <<>>
    /\ file' = "none"
    /\ nUpload' = 0
    /\ video_result' = "none"
    /\ err' = "none"
    /\ resp' = EmptyDict
    /\ stray' = 0
    /\ temp_image' = "none" /\ models' = "none" /\ model_name' = "none"
    /\ writer' = "none" /\ written' = <<>>
    /\ UNCHANGED <<variant, model_cache, model_dirs, downloads>>
    /\ UNCHANGED libraryVars

Next ==
    \/ Handler
    \/ JobDone
    \/ DownloadImages
    \/ LoadModels
    \/ PreprocessImages
    \/ GenerateFrame
    \/ CreateMorphingFallback
    \/ CreateVideoFromFrames
    \/ PackageResult

Spec == Init /\ [][Next]_vars


\* ================================================================= main.py
\* The worker of rp_handler.py runs main.py's handler: the models are looked
\* up (or downloaded) on every call, the images are loaded, and the video is
\* generated by a subprocess that reads a temporary JPEG and writes an MP4.
Main == "main.py"

\* source_image / target_image of a job: the forms above, or not a string
MainImageValues == ImageValues \cup {"number"}
MainModelNames  == {"remade_ai", "wan_ai", "other"}

MainJobs ==
    {NullJob} \cup
    { Job("dict", FALSE, FALSE, "absent", si, ti, "absent", "absent", "absent") :
        si \in MainImageValues, ti \in MainImageValues }

\* load_image_from_input: an HTTP(S) URL is fetched (the network decides);
\* for every other string the padding expression
\*     image_data + '=' * (4 - len(image_data) % 4) % 4
\* applies % to a string without a format specifier and raises TypeError
LoadImageFromInput(v) == IF v = "http" THEN {"ok", "fails"} ELSE {"fails"}

MainFailed(e) == [error |-> e, status |-> "failed"]

MainInit ==
    /\ variant = Main
    /\ model_cache = "empty"
    /\ job = NullJob
    /\ pc = "idle"
    /\ phase = "ai"
    /\ src = "none" /\ tgt = "none"
    /\ nDecode = [source |-> 0, target |-> 0]
    /\ nLoad = 0 /\ nCalls = 0 /\ nFallback = 0
    /\ loadOutcome = "none"
    /\ pipeline = "none"
    /\ frames = <<>> /\ morph = <<>>
    /\ file = "none"
    /\ nUpload = 0
    /\ video_result = "none"
    /\ err = "none"
    /\ resp = EmptyDict
    /\ stray = 0
    /\ temp_image = "none" /\ models = "none" /\ model_name = "none"
    /\ model_dirs \in [ModelKeys -> {"empty", "volume"}]
    /\ downloads = NoDownloads
    /\ writer = "none" /\ written = <<>>
    /\ morph_call = NoMorphCall /\ blended = <<>>
    /\ prep_call = NoPrepCall /\ prep_result = <<>>
    /\ gen_call = NoGenCall /\ np_random = 0 /\ runs = <<>>

\* handler(job) up to load_kiss_models()
MainHandler ==
    /\ pc = "idle"
    /\ \E j \in MainJobs, m \in MainModelNames :
         /\ job' = j
         /\ model_name' = m
         /\ IF j.input = "null"
            THEN Return(MainFailed("AttributeError"))
            ELSE IF ~Present(j, "source_image") \/ ~Present(j, "target_image")
            THEN Return(MainFailed("Missing source_image or target_image in input"))
            ELSE IF j.source_image = "number" \/ j.target_image = "number"
            THEN Return(MainFailed("source_image and target_image must be base64 encoded strings"))
            ELSE Continue("main_load")
    /\ UNCHANGED <<variant, model_cache, src, tgt, nDecode, nLoad, nCalls, loadOutcome,
                   pipeline, frames, morph, file, nUpload, video_result, stray,
                   temp_image, models, model_dirs, downloads>>
    /\ UNCHANGED <<encoderVars, libraryVars>>

\* what a model directory holds: nothing (absent or empty); the files that
\* were on the volume when the worker started; the files of a download that
\* reported success; files of a download that did not report success, either
\* an incomplete set ("partial") or the full set, finished after the caller
\* had given up ("late")
DirStates == {"empty", "volume", "downloaded", "partial", "late"}

\* os.path.exists(path) and os.listdir(path) is not empty
DirPopulated(d) == d # "empty"

\* how download_model_from_hf ends: the thread reported success within the
\* timeout; it reported an error; it was still alive after join(timeout); or
\* the function's own try caught an exception (makedirs, Thread.start)
DownloadOutcomes == {"success", "error", "timeout", "exception"}

\* the bool download_model_from_hf returns
DownloadReturns(o) == o = "success"

\* what the directory holds when the call returns
DirAfterDownload(o) ==
    CASE o = "success"           -> {"downloaded"}
      [] o \in {"error", "timeout"} -> {"empty", "partial"}
      [] OTHER                   -> {"empty"}

\* a LoRA entry built without looking at the base model's entry
RemadeEntryAlone(wan_entry, lora_found) == lora_found

\* models['remade_ai']: a config dict (TRUE) only if models.get('wan_ai') is
\* not None, None (FALSE) otherwise
RemadeEntry(wan_entry, lora_found) == wan_entry /\ lora_found

\* one of the two try blocks of load_kiss_models: the directory is probed, a
\* missing model is downloaded; an exception of the probe leaves the entry None
LoadOne(k, probe, o, d) ==
    IF probe = "raises"
    THEN [found |-> FALSE, dir |-> model_dirs[k], thread |-> downloads[k]]
    ELSE IF DirPopulated(model_dirs[k])
    THEN [found |-> TRUE, dir |-> model_dirs[k], thread |-> downloads[k]]
    ELSE [found |-> DownloadReturns(o), dir |-> d,
          thread |-> downloads[k] \/ o = "timeout"]

\* load_kiss_models(): each entry is a config dict (TRUE) or None (FALSE)
LoadKissModels ==
    /\ pc = "main_load"
    /\ nLoad' = nLoad + 1
    /\ \E makedirs_ok \in BOOLEAN :
         IF makedirs_ok
         THEN \E pw \in {"ok", "raises"}, pl \in {"ok", "raises"},
                 ow \in DownloadOutcomes, ol \in DownloadOutcomes :
              \E dw \in DirAfterDownload(ow), dl \in DirAfterDownload(ol) :
                LET wan  == LoadOne("wan_ai", pw, ow, dw)
                    lora == LoadOne("remade_ai", pl, ol, dl)
                IN /\ models' = [wan_ai    |-> wan.found,
                                 remade_ai |-> RemadeEntry(wan.found, lora.found)]
                   /\ model_dirs' = [wan_ai |-> wan.dir, remade_ai |-> lora.dir]
                   /\ downloads' = [wan_ai |-> wan.thread, remade_ai |-> lora.thread]
                   /\ loadOutcome' = "returned"
                   /\ Continue("main_preprocess")
         ELSE \* os.makedirs(model_cache_dir) raises: handler()'s except clause
              /\ loadOutcome' = "raised"
              /\ UNCHANGED <<models, model_dirs, downloads>>
              /\ Return(MainFailed("OSError"))
    /\ UNCHANGED <<variant, model_cache, job, src, tgt, nDecode, nCalls,
                   pipeline, frames, morph, file, nUpload, video_result, stray,
                   temp_image, model_name>>
    /\ UNCHANGED <<encoderVars, libraryVars>>

\* download_worker of a call that timed out: the daemon thread goes on writing
\* into local_dir until snapshot_download returns or raises
DownloadWorker(k) ==
    /\ downloads[k]
    /\ \E e \in {"writes", "finishes", "fails"} :
         /\ model_dirs' =
              IF model_dirs[k] \in {"empty", "partial"} /\ e # "fails"
              THEN [model_dirs EXCEPT ![k] = IF e = "writes" THEN "partial" ELSE "late"]
              ELSE model_dirs
         /\ downloads' = [downloads EXCEPT ![k] = (e = "writes")]
    /\ UNCHANGED <<variant, model_cache, job, pc, phase, src, tgt, nDecode, nLoad, nCalls,
                   nFallback, loadOutcome, pipeline, frames, morph, file, nUpload,
                   video_result, err, resp, stray, temp_image, models, model_name>>
    /\ UNCHANGED <<encoderVars, libraryVars>>

\* preprocess_images(source_image_data, target_image_data)
MainPreprocessImages ==
    /\ pc = "main_preprocess"
    /\ \E so \in LoadImageFromInput(job.source_image),
          to \in LoadImageFromInput(job.target_image) :
         /\ nDecode' = [source |-> nDecode.source + 1,
                        target |-> IF so = "ok" THEN nDecode.target + 1 ELSE nDecode.target]
         /\ IF so = "ok" /\ to = "ok"
            THEN /\ src' = "image" /\ tgt' = "image"
                 /\ Continue("main_generate")
            ELSE /\ UNCHANGED <<src, tgt>>
                 /\ Return(MainFailed("Image processing error"))
    /\ UNCHANGED <<variant, model_cache, job, nLoad, nCalls, loadOutcome, pipeline,
                   frames, morph, file, nUpload, video_result, stray>>
    /\ UNCHANGED <<mainVars, encoderVars, libraryVars>>

\* how subprocess.run(cmd, ..., timeout=300) ends, and whether the generation
\* script left a file at output_path
SubprocessOutcomes == {"exit0_output", "exit0_no_output", "nonzero", "nonzero_output",
                       "timeout", "timeout_output"}

\* the model check of handler(), then generate_kiss_video(...)
GenerateKissVideo ==
    /\ pc = "main_generate"
    /\ IF model_name \notin DOMAIN models \/ ~models[model_name]
       THEN /\ Return([error |-> "Model not available", status |-> "failed",
                       available_models |-> {k \in DOMAIN models : models[k]}])
            /\ UNCHANGED <<nCalls, temp_image, file, stray>>
       ELSE /\ nCalls' = nCalls + 1
            /\ \E o \in SubprocessOutcomes :
                 CASE o = "exit0_output" ->
                        /\ temp_image' = "removed"
                        /\ file' = "video"
                        /\ UNCHANGED stray
                        /\ Continue("main_upload")
                   [] o = "exit0_no_output" ->
                        /\ temp_image' = "removed"
                        /\ UNCHANGED <<file, stray>>
                        /\ Return(MainFailed("Failed to generate video - check logs for details"))
                   [] OTHER ->
                        \* return None ahead of the clean-up of temp_image_path;
                        \* output_path is forgotten with whatever was written
                        /\ temp_image' = "exists"
                        /\ UNCHANGED file
                        /\ stray' = (IF o \in {"nonzero_output", "timeout_output"}
                                     THEN stray + 1 ELSE stray)
                        /\ Return(MainFailed("Failed to generate video - check logs for details"))
    /\ UNCHANGED <<variant, model_cache, job, src, tgt, nDecode, nLoad, loadOutcome,
                   pipeline, frames, morph, nUpload, video_result, models, model_name,
                   model_dirs, downloads>>
    /\ UNCHANGED <<encoderVars, libraryVars>>

\* upload_to_storage(video_path), os.remove(video_path), the success dict
UploadToStorage ==
    /\ pc = "main_upload"
    /\ \E rd \in ReadOutcomes :
         IF rd = "ok"
         THEN /\ video_result' = "b64"
              /\ file' = "removed"
              /\ Return([status |-> "success", video_data |-> "b64", model_used |-> model_name,
                         message |-> "Kiss video generated successfully"])
         ELSE \* the exception reaches handler()'s except clause, past os.remove
              /\ UNCHANGED <<video_result, file>>
              /\ Return(MainFailed("OSError"))
    /\ UNCHANGED <<variant, model_cache, job, src, tgt, nDecode, nLoad, nCalls, loadOutcome,
                   pipeline, frames, morph, nUpload, stray>>
    /\ UNCHANGED <<mainVars, encoderVars, libraryVars>>

MainNext ==
    \/ MainHandler
    \/ JobDone
    \/ LoadKissModels
    \/ MainPreprocessImages
    \/ GenerateKissVideo
    \/ UploadToStorage
    \/ \E k \in ModelKeys : DownloadWorker(k)

MainSpec == MainInit /\ [][MainNext]_vars


\* ====================================================== the image functions
\* every variable of a worker at rest, the script it runs aside
WorkerIdle ==
    /\ model_cache = "empty"
    /\ job = NullJob
    /\ pc = "idle"
    /\ phase = "ai"
    /\ src = "none" /\ tgt = "none"
    /\ nDecode = [source |-> 0, target |-> 0]
    /\ nLoad = 0 /\ nCalls = 0 /\ nFallback = 0
    /\ loadOutcome = "none"
    /\ pipeline = "none"
    /\ frames = <<>> /\ morph = <<>>
    /\ file = "none"
    /\ nUpload = 0
    /\ video_result = "none"
    /\ err = "none"
    /\ resp = EmptyDict
    /\ stray = 0
    /\ temp_image = "none" /\ models = "none" /\ model_name = "none"
    /\ model_dirs = NoModelDirs /\ downloads = NoDownloads
    /\ writer = "none" /\ written = <<>>

\* --------------------------------------------------- the morphing loop
\* frame counts tried (48 in the code)
MaxFrameCount == 5

\* channel values tried
PixelValues == {0, 1, 2, 3, 127, 128, 254, 255}

\* sin((pi/2) * r/m) for 0 <= r <= m, as a fraction.  np.sin is taken by
\* Bhaskara's rational formula 16x(pi-x) / (5pi^2 - 4x(pi-x)): exact at 0,
\* pi/6 and pi/2, within 0.002 in between.
QuarterSine(r, m) ==
    [num |-> 4 * r * (2 * m - r), den |-> 5 * m * m - r * (2 * m - r)]

\* sin((pi/2) * q/m) for -m <= q <= 3m, reduced to the first quadrant
Sine(q, m) ==
    LET neg(f) == [num |-> 0 - f.num, den |-> f.den] IN
    IF q < 0 THEN neg(QuarterSine(0 - q, m))
    ELSE IF q <= m THEN QuarterSine(q, m)
    ELSE IF q <= 2 * m THEN QuarterSine(2 * m - q, m)
    ELSE neg(QuarterSine(q - 2 * m, m))

\* a blend weight that runs from 0 at the first frame to 1 at the last
AlphaLinear(i, n) == [num |-> i, den |-> n - 1]

\* t = i / (n - 1); alpha = 0.5 * (1 + np.sin(2 * np.pi * t - np.pi/2)):
\* the angle is (pi/2) * (4i - (n-1)) / (n-1)
Alpha(i, n) ==
    LET sn == Sine(4 * i - (n - 1), n - 1) IN
    [num |-> sn.den + sn.num, den |-> 2 * sn.den]

\* (1 - alpha) * source + alpha * target, as a fraction
Blended(a, s, t) == [num |-> (a.den - a.num) * s + a.num * t, den |-> a.den]

\* ndarray.astype(np.uint8) of a non-negative float: the fraction is cut off
AsUint8(f) == (f.num \div f.den) % 256

\* one iteration of the loop of create_morphing_fallback, for one channel
MorphCalls ==
    { c \in [n : 2..MaxFrameCount, i : 0..(MaxFrameCount - 1),
             s : PixelValues, t : PixelValues] : c.i < c.n }

BlendInit ==
    /\ variant \in {Serverless, Legacy, Production}
    /\ WorkerIdle
    /\ morph_call \in MorphCalls
    /\ blended = <<>>
    /\ prep_call = NoPrepCall /\ prep_result = <<>>
    /\ gen_call = NoGenCall /\ np_random = 0 /\ runs = <<>>

\* frames.append(blended.astype(np.uint8))
MorphFrame ==
    /\ morph_call # NoMorphCall /\ blended = <<>>
    /\ blended' = <<AsUint8(Blended(Alpha(morph_call.i, morph_call.n),
                                    morph_call.s, morph_call.t))>>
    /\ UNCHANGED <<variant, model_cache, job, pc, phase, src, tgt, nDecode, nLoad, nCalls,
                   nFallback, loadOutcome, pipeline, frames, morph, file, nUpload,
                   video_result, err, resp, stray, morph_call, prep_call, prep_result,
                   gen_call, np_random, runs>>
    /\ UNCHANGED <<mainVars, encoderVars>>

BlendNext == MorphFrame

BlendSpec == BlendInit /\ [][BlendNext]_vars


\* ------------------------------------------------------ preprocess_image
\* the largest width or height tried, for the image and for the target size
MaxSide == 6

RECURSIVE Gcd(_, _)
Gcd(a, b) == IF b = 0 THEN a ELSE Gcd(b, a % b)

RECURSIVE PowerOfTwo(_)
PowerOfTwo(k) == k = 1 \/ (k % 2 = 0 /\ PowerOfTwo(k \div 2))

\* w / h is a binary fraction, so the float aspect is the exact quotient
ExactAspect(w, h) == PowerOfTwo(h \div Gcd(w, h))

\* int(a * h / w) computed through the float aspect = w / h (as a / aspect) or
\* int(a * w / h) (as a * aspect): the floor of the exact quotient, except that
\* an exact quotient that is an integer can come out just below it when the
\* aspect had to be rounded
IntOfScaled(a, num, den, exact) ==
    LET q == (a * num) \div den IN
    IF (a * num) % den = 0 /\ ~exact THEN {q, q - 1} ELSE {q}

\* new_w, new_h of preprocess_image / preprocess_face_image
NewSizes(w, h, target_w, target_h) ==
    IF w > h    \* aspect > 1
    THEN { [new_w |-> target_w, new_h |-> nh] :
             nh \in IntOfScaled(target_w, h, w, ExactAspect(w, h)) }
    ELSE { [new_w |-> nw, new_h |-> target_h] :
             nw \in IntOfScaled(target_h, w, h, ExactAspect(w, h)) }

\* what Image.resize does with an empty size: ValueError, or an empty image
\* (by Pillow version)
ResizeOutcomes(sz) ==
    IF sz.new_w >= 1 /\ sz.new_h >= 1 THEN {"ok"} ELSE {"raises", "ok"}

PrepCalls == [w : 1..MaxSide, h : 1..MaxSide, target_w : 1..MaxSide, target_h : 1..MaxSide]

PrepInit ==
    /\ variant \in {Serverless, Legacy, Production}
    /\ WorkerIdle
    /\ morph_call = NoMorphCall /\ blended = <<>>
    /\ prep_call \in PrepCalls
    /\ prep_result = <<>>
    /\ gen_call = NoGenCall /\ np_random = 0 /\ runs = <<>>

\* preprocess_image(image, size): resize, new canvas of size, paste in the centre
PreprocessImage ==
    /\ prep_call # NoPrepCall /\ prep_result = <<>>
    /\ \E sz \in NewSizes(prep_call.w, prep_call.h, prep_call.target_w, prep_call.target_h) :
       \E o \in ResizeOutcomes(sz) :
         prep_result' =
            << [outcome |-> o,
                size    |-> <<prep_call.target_w, prep_call.target_h>>,
                new_w   |-> sz.new_w,
                new_h   |-> sz.new_h,
                \* // of Python and \div both round towards minus infinity
                paste_x |-> (prep_call.target_w - sz.new_w) \div 2,
                paste_y |-> (prep_call.target_h - sz.new_h) \div 2] >>
    /\ UNCHANGED <<variant, model_cache, job, pc, phase, src, tgt, nDecode, nLoad, nCalls,
                   nFallback, loadOutcome, pipeline, frames, morph, file, nUpload,
                   video_result, err, resp, stray, morph_call, blended, prep_call,
                   gen_call, np_random, runs>>
    /\ UNCHANGED <<mainVars, encoderVars>>

PrepNext == PreprocessImage

PrepSpec == PrepInit /\ [][PrepNext]_vars


\* ------------------------------------------------- the encoders on their own
\* create_video_from_frames of the four scripts that have one, and
\* save_video_frames of main.py, called with a frame list of any length
EncoderScripts == {Serverless, Legacy, Production, RealAi, Main}

FrameKinds == {"ai", "control", "blend"}
FrameLists == UNION { [1..k -> FrameKinds] : k \in 0..NumFrames }

\* what the call raises for frames == []: the scripts test "if not frames";
\* save_video_frames goes straight to frames[0]
EmptyFramesError(v) ==
    CASE v = Main       -> "IndexError: list index out of range"
      [] v = Production -> "ValueError: No frames provided for video creation"
      [] OTHER          -> "ValueError: No frames to create video"

EncodeInit ==
    /\ variant \in EncoderScripts
    /\ model_cache = "empty"
    /\ job \in { Job("dict", FALSE, FALSE, "absent", "absent", "absent", "absent", "absent", fmt) :
                   fmt \in IF variant \in {Serverless, RealAi} THEN {"absent", "url"}
                           ELSE {"absent"} }
    /\ pc = "encoder_call"
    /\ phase = "ai"
    /\ src = "none" /\ tgt = "none"
    /\ nDecode = [source |-> 0, target |-> 0]
    /\ nLoad = 0 /\ nCalls = 0 /\ nFallback = 0
    /\ loadOutcome = "none"
    /\ pipeline = "none"
    /\ frames \in FrameLists
    /\ morph = <<>>
    /\ file = "none"
    /\ nUpload = 0
    /\ video_result = "none"
    /\ err = "none"
    /\ resp = EmptyDict
    /\ stray = 0
    /\ temp_image = "none" /\ models = "none" /\ model_name = "none"
    /\ model_dirs = NoModelDirs /\ downloads = NoDownloads
    /\ writer = "none" /\ written = <<>>
    /\ morph_call = NoMorphCall /\ blended = <<>>
    /\ prep_call = NoPrepCall /\ prep_result = <<>>
    /\ gen_call = NoGenCall /\ np_random = 0 /\ runs = <<>>

\* the call ends with an exception
EncoderRaises(e) == pc' = "raised" /\ err' = e /\ video_result' = "none"

\* the call returns r
EncoderReturns(r) == pc' = "returned" /\ err' = "none" /\ video_result' = r

\* create_video_from_frames(frames, return_url=...), from the first line to
\* the return
CallCreateVideoFromFrames ==
    /\ pc = "encoder_call" /\ variant # Main
    /\ \E w \in WriterOutcomes, up \in {"ok", "fails"}, rd \in ReadOutcomes :
         IF frames = <<>>
         THEN /\ EncoderRaises(EmptyFramesError(variant))
              /\ UNCHANGED <<file, writer, written, nUpload, stray>>
         ELSE IF w = "raises"
         THEN /\ EncoderRaises("cv2.error")
              /\ UNCHANGED <<file, writer, written, nUpload, stray>>
         ELSE IF w = "raises_midway"
         THEN /\ EncoderRaises("cv2.error")
              /\ writer' = "open"
              /\ \E k \in 0..(Len(frames) - 1) : written' = SubSeq(FrameWrites(frames), 1, k)
              /\ stray' = stray + 1
              /\ UNCHANGED <<file, nUpload>>
         ELSE /\ writer' = WriterAfterRelease(w)
              /\ written' = FrameWrites(frames)
              /\ IF w = "unopened"
                 THEN \* os.path.getsize / open find no file
                      /\ EncoderRaises("FileNotFoundError")
                      /\ UNCHANGED <<file, nUpload, stray>>
                 ELSE LET data == IF w = "ok" THEN "b64" ELSE "b64_empty" IN
                      /\ nUpload' = (IF ReturnUrl(variant, job) THEN nUpload + 1 ELSE nUpload)
                      /\ IF ReturnUrl(variant, job) /\ up = "ok"
                         THEN /\ file' = "removed" /\ UNCHANGED stray
                              /\ EncoderReturns("url")
                         ELSE IF rd = "ok"
                         THEN /\ file' = "removed" /\ UNCHANGED stray
                              /\ EncoderReturns(data)
                         ELSE /\ file' = "none" /\ stray' = stray + 1
                              /\ EncoderRaises("OSError")
    /\ UNCHANGED <<variant, model_cache, job, phase, src, tgt, nDecode, nLoad, nCalls,
                   nFallback, loadOutcome, pipeline, frames, morph, resp>>
    /\ UNCHANGED <<mainVars, libraryVars>>

\* main.py save_video_frames(frames): returns output_path, reads nothing back
SaveVideoFrames ==
    /\ pc = "encoder_call" /\ variant = Main
    /\ \E w \in WriterOutcomes :
         IF frames = <<>>
         THEN /\ EncoderRaises(EmptyFramesError(variant))
              /\ UNCHANGED <<file, writer, written, stray>>
         ELSE IF w = "raises"
         THEN /\ EncoderRaises("cv2.error")
              /\ UNCHANGED <<file, writer, written, stray>>
         ELSE IF w = "raises_midway"
         THEN /\ EncoderRaises("cv2.error")
              /\ writer' = "open"
              /\ \E k \in 0..(Len(frames) - 1) : written' = SubSeq(FrameWrites(frames), 1, k)
              /\ stray' = stray + 1
              /\ UNCHANGED file
         ELSE /\ writer' = WriterAfterRelease(w)
              /\ written' = FrameWrites(frames)
              /\ file' = (CASE w = "ok" -> "video"
                            [] w = "unopened" -> "none"
                            [] OTHER -> "empty")
              /\ UNCHANGED stray
              /\ EncoderReturns("output_path")
    /\ UNCHANGED <<variant, model_cache, job, phase, src, tgt, nDecode, nLoad, nCalls,
                   nFallback, loadOutcome, pipeline, frames, morph, nUpload, resp>>
    /\ UNCHANGED <<mainVars, libraryVars>>

EncodeNext ==
    \/ CallCreateVideoFromFrames
    \/ SaveVideoFrames

EncodeSpec == EncodeInit /\ [][EncodeNext]_vars


\* ------------------------------------------- frame generation, run again
\* generate_kiss_video_frames with the stand-in pipeline, and the loop of
\* create_morphing_fallback, run several times on one worker.  A frame is
\* followed through one channel value of one pixel, inside (m = 1) or outside
\* (m = 0) the circle the stand-in draws around the centre.

\* states of numpy's global generator that are told apart
RngStates == 4
\* runs of the frame generation on one worker
MaxRuns == 3

\* image=None
NoImage == 0 - 1

\* np.random.randint(100, 200, ...): the value drawn in state r of the global
\* generator, and the state after the draw
RandInt(r) == [value |-> 100 + r, next |-> (r + 1) % RngStates]

\* np.clip(x, 0, 255).astype(np.uint8) for x = num / den >= 0
ClipUint8(num, den) == IF num >= 255 * den THEN 255 ELSE num \div den

\* CUDA128CompatiblePipeline.__call__ for one channel value: without an image
\* the frame is drawn from np.random; with one it is the image times
\* enhancement = 1.05 + (6.0 - 6.0) * 0.02 and, inside the circle, times
\* 0.8 + 1.15 * 0.2.  The generator argument is never read.
MockPipelineCall(image, m, generator, r) ==
    IF image = NoImage
    THEN [pixel |-> RandInt(r).value, rng |-> RandInt(r).next]
    ELSE [pixel |-> IF m = 1 THEN ClipUint8(image * 105 * 103, 100 * 100)
                             ELSE ClipUint8(image * 105, 100),
          rng   |-> r]

\* a frame loop that calls the pipeline without an image
ControlImageNone(i, n, s, t) == NoImage

\* control_image of iteration i: the source for the first half of the frames,
\* the target for the second
ControlImage(i, n, s, t) == IF i < n \div 2 THEN s ELSE t

\* the loop of generate_kiss_video_frames from iteration i on, with the frames
\* appended so far and the generator state; the per-frame seed is 42 + i
RECURSIVE GenerateKissVideoFrames(_, _, _, _)
GenerateKissVideoFrames(c, i, r, acc) ==
    IF i = c.n
    THEN [frames |-> acc, rng |-> r]
    ELSE LET res == MockPipelineCall(ControlImage(i, c.n, c.s, c.t), c.m, 42 + i, r)
         IN GenerateKissVideoFrames(c, i + 1, res.rng, Append(acc, res.pixel))

\* the loop of create_morphing_fallback
MorphingFrames(c) ==
    [k \in 1..c.n |-> AsUint8(Blended(Alpha(k - 1, c.n), c.s, c.t))]

\* one run of the frame generation on the path c.path
FrameRun(c, r) ==
    IF c.path = "ai"
    THEN GenerateKissVideoFrames(c, 0, r, <<>>)
    ELSE [frames |-> MorphingFrames(c), rng |-> r]

GenCalls == [path : {"ai", "morph"}, n : 2..MaxFrameCount,
             s : PixelValues, t : PixelValues, m : {0, 1}]

\* another request of the same worker: the two images the other way round
OtherCall(c) == [c EXCEPT !.s = c.t, !.t = c.s]

\* numpy seeds its global generator from the operating system when the worker
\* starts
RunsInit ==
    /\ variant = Serverless
    /\ WorkerIdle
    /\ morph_call = NoMorphCall /\ blended = <<>>
    /\ prep_call = NoPrepCall /\ prep_result = <<>>
    /\ gen_call \in GenCalls
    /\ np_random \in 0..(RngStates - 1)
    /\ runs = <<>>

\* the worker generates the frames of one more request
GenerateFrames ==
    /\ gen_call # NoGenCall /\ Len(runs) < MaxRuns
    /\ \E c \in {gen_call, OtherCall(gen_call)} :
         LET g == FrameRun(c, np_random) IN
         /\ runs' = Append(runs, [call |-> c, frames |-> g.frames])
         /\ np_random' = g.rng
    /\ UNCHANGED <<variant, model_cache, job, pc, phase, src, tgt, nDecode, nLoad, nCalls,
                   nFallback, loadOutcome, pipeline, frames, morph, file, nUpload,
                   video_result, err, resp, stray, morph_call, blended, prep_call,
                   prep_result, gen_call>>
    /\ UNCHANGED <<mainVars, encoderVars>>

RunsNext == GenerateFrames

RunsSpec == RunsInit /\ [][RunsNext]_vars


\* ================================================================ claims
Status == Get(resp, "status", "none")

\* a job that asks for a video: a dict input without a control flag
GenerationRequest(j) ==
    /\ j.input = "dict"
    /\ ~j.health_check /\ ~j.test_mode
    /\ j.debug \notin {"check_volume", "check_gpu", "check_models"}

SourceAbsent(j) == ~Present(j, "source_image") /\ ~Present(j, "source_image_url")
TargetAbsent(j) == ~Present(j, "target_image") /\ ~Present(j, "target_image_url")

\* ---------------------------------------------------------------------- C1
\* C1: whatever the job and whatever fails, the handlers of
\* handler.serverless.py, handler.production.py and handler.py return a dict
\* with a "status" field; no exception reaches the job-queue runtime.
C1_StatusAlways ==
    (pc = "done" /\ variant \in {Serverless, Production, Basic})
        => (Has(resp, "status") /\ ~Has(resp, "uncaught"))

\* a null input, answered by the except clause of handler()
C1_Witness ==
    /\ pc = "done" /\ variant = Basic
    /\ job.input = "null"
    /\ Status = "error" /\ Get(resp, "error", "none") = "AttributeError"

\* ---------------------------------------------------------------------- C2
\* C2: in generate_ai_kiss_video of handler.serverless.py and
\* handler_serverless.py, once model loading, frame generation or encoding has
\* raised, the fallback is entered exactly once and the AI path is not entered
\* again; the request ends with "fallback_success" and the original error when
\* the fallback produced a video, and with "error", the original error and the
\* fallback's error when it did not.
C2_FallbackOnce ==
    (variant \in {Serverless, Legacy} /\ err \in {"load", "generate", "encode"})
        => /\ nFallback = 1
           /\ phase = "fallback"
           /\ nLoad = 1
           /\ nCalls <= NumFrames
           /\ pc \in {"decode", "morph", "encode", "package", "done"}
           /\ pc = "done" =>
                IF video_result # "none"
                THEN /\ Status = "fallback_success"
                     /\ resp.error = err
                     /\ ~Has(resp, "fallback_error")
                ELSE /\ Status = "error"
                     /\ resp.error = err
                     /\ Has(resp, "fallback_error")

\* the model is missing, and the fallback's encoder fails as well
C2_Witness ==
    /\ pc = "done" /\ variant = Serverless
    /\ err = "load" /\ nFallback = 1
    /\ Status = "error" /\ resp.error = "load" /\ resp.fallback_error = "encode"

\* ---------------------------------------------------------------------- C3
\* C3: with the model absent from the volume, a request with two valid images
\* is answered with a morphing-fallback video (unless the fallback itself
\* failed), never with an error response without a video.
C3_MissingModelFallsBack ==
    (/\ pc = "done"
     /\ loadOutcome = "missing"
     /\ SourceForm = "data_ok" /\ TargetForm = "data_ok"
     /\ ~Has(resp, "fallback_error"))
        => /\ Status = "fallback_success"
           /\ Has(resp, "video") \/ Has(resp, "video_url")

\* ---------------------------------------------------------------------- C4
\* C4: once an image could not be fetched or decoded, the request ends in the
\* error outcome with no model load, no frame generation, no fallback
\* generation and no second fetch/decode of the same image.
C4_InvalidInputTerminal ==
    (variant \in {Serverless, Production} /\ err = "decode")
        => /\ nDecode.source <= 1 /\ nDecode.target <= 1
           /\ nLoad = 0 /\ nCalls = 0
           /\ frames = <<>> /\ morph = <<>>
           /\ pc = "done" => Status = "error"

\* ---------------------------------------------------------------------- C5
\* C5: a generation request whose source_image is malformed base64 ends with
\* status "error" and a response without any video.
C5_MalformedSourceIsError ==
    (pc = "done" /\ GenerationRequest(job) /\ job.source_image = "bad")
        => /\ Status = "error"
           /\ ~Has(resp, "video") /\ ~Has(resp, "video_url")

\* ---------------------------------------------------------------------- C6
\* C6: a generation request that lacks the source or the target image is
\* answered with status "error", without a video and without a model load.
C6_MissingImageIsError ==
    (pc = "done" /\ GenerationRequest(job) /\ (SourceAbsent(job) \/ TargetAbsent(job)))
        => /\ Status = "error"
           /\ ~Has(resp, "video") /\ ~Has(resp, "video_url")
           /\ nLoad = 0

\* ---------------------------------------------------------------------- C7
UploadFailedNotes ==
    {"Real AI models loaded (Upload failed, returned base64 instead)",
     "Upload failed, returned base64 instead"}

\* C7: with output_format = "url", a failed upload does not fail the request:
\* the status is "success" (AI path) or "fallback_success" (morphing path), the
\* response has the inline video in "video", no "video_url", and a note that
\* says the upload failed.
C7_UploadFailureDegrades ==
    (/\ pc = "done"
     /\ job.output_format = "url"
     /\ nUpload >= 1 /\ Inline(video_result))
        => /\ Status = (IF phase = "ai" THEN "success" ELSE "fallback_success")
           /\ Has(resp, "video") /\ resp.video = video_result
           /\ ~Has(resp, "video_url")
           /\ Has(resp, "note") /\ resp.note \in UploadFailedNotes

\* the AI path's upload failed
C7_Witness ==
    /\ pc = "done" /\ variant = Serverless
    /\ job.output_format = "url"
    /\ phase = "ai" /\ nUpload = 1 /\ video_result = "b64"
    /\ Status = "success" /\ resp.video = "b64"

C9_ResultFieldsAlways ==
    (pc = "done" /\ variant = Serverless /\ nDecode.source >= 1)
        => \A k \in {"status", "processing_time", "num_frames", "resolution", "model_used"} :
              Has(resp, k)

\* --------------------------------------------------------------------- C10
AiModelNames ==
    {"Wan-AI 14B I2V + Kissing LoRA (Real AI Implementation)",
     "Wan-AI 14B I2V + Kissing LoRA", "Wan2.1-I2V-14B-720P"}

\* C10: a response with status "success" and an AI model name in model_used
\* returns a video whose frames all came from the AI pipeline.
C10_SuccessMeansAiFrames ==
    (pc = "done" /\ Status = "success" /\ Get(resp, "model_used", "none") \in AiModelNames)
        => \A i \in 1..Len(frames) : frames[i] = "ai"

\* --------------------------------------------------------------------- C11
\* C11: when a handler call has returned, on whichever path, no temporary file
\* the call created (the encoded video, the temporary input image) exists any
\* more.
C11_NoTempFileLeft ==
    pc = "done" =>
        /\ stray = 0
        /\ temp_image # "exists"
        /\ file \notin {"video", "empty"}

\* --------------------------------------------------------------------- C12
\* the frames a script puts in the place of a frame whose pipeline call raised
SubstituteFrames == {"control", "blend"}

\* C12: a pipeline call that raises for one frame fails the AI generation as a
\* whole: the frame list of generate_kiss_video_frames and of
\* generate_kiss_animation_frames never holds a substitute for a failed frame
\* beside frames of the pipeline.
C12_NoFrameSubstitution ==
    variant \in {Serverless, Production} =>
        \A i \in 1..Len(frames) : frames[i] \notin SubstituteFrames

\* --------------------------------------------------------------------- C13
\* the frames the encoder of the current phase is to be given
FramesDue == IF phase = "ai" THEN NumFrames ELSE MorphFrames

\* the states of a request of a script with create_video_from_frames
C13_StateOrder ==
    /\ pc \in {"load", "preprocess", "frames", "morph", "encode", "package"}
          => src = "image" /\ tgt = "image"
    /\ (phase = "ai" /\ pc \in {"decode", "load", "preprocess", "frames"})
          => writer = "none" /\ written = <<>> /\ nUpload = 0
    /\ pc = "encode" => Len(EncoderInput) = FramesDue
    /\ pc = "package"
          => /\ Released(writer)
             /\ written = [i \in 1..FramesDue |-> i]
    /\ video_result # "none"
          => pc = "done" /\ Released(writer) /\ written = [i \in 1..FramesDue |-> i]
    /\ (pc = "done" /\ nDecode.source >= 1)
          => Status \in {"success", "fallback_success", "error"}

\* the steps of such a request
C13_StepOrder ==
    /\ (written' # written /\ written' # <<>>)
          => /\ pc = "encode" /\ Len(EncoderInput) = FramesDue
             /\ \A i \in 1..Len(written') : written'[i] = i
    /\ (nUpload' > nUpload \/ (video_result' # video_result /\ video_result' # "none"))
          => pc = "package" /\ Released(writer)
    /\ pc = "done" => pc' = "idle"

\* C13: a generation request of a script with create_video_from_frames runs
\* decode, frame generation, encoding and packaging in this order: the encoder
\* starts when all the frames exist, hands every frame to the writer once and
\* in index order, reading back or uploading starts once the writer is
\* released, and the request ends in one terminal outcome.
C13_StepsInOrder ==
    /\ [](variant # Basic => C13_StateOrder)
    /\ [][variant # Basic => C13_StepOrder]_vars

\* a video that went through all four steps
C13_Witness ==
    /\ pc = "done" /\ variant = Serverless /\ phase = "ai"
    /\ Len(frames) = NumFrames /\ written = [i \in 1..NumFrames |-> i]
    /\ writer = "released" /\ video_result = "b64" /\ Status = "success"

\* --------------------------------------------------------------------- C14
\* the distance of two channel values
Dist(a, b) == IF a >= b THEN a - b ELSE b - a

C16_BlendRoundsToNearest ==
    blended # <<>> =>
        LET f == Blended(Alpha(morph_call.i, morph_call.n), morph_call.s, morph_call.t) IN
        /\ blended[1] \in 0..255
        /\ 2 * Dist(blended[1] * f.den, f.num) <= f.den

\* --------------------------------------------------------------------- C17
\* C17: for every image of at least 1x1 and every target size (W, H),
\* preprocess_image returns an image of exactly W x H in which the resized
\* input lies inside the canvas (1 <= scaled width <= W, 1 <= scaled height
\* <= H), has the input's aspect ratio up to the cut-off of one pixel, and is
\* pasted at floor((W - scaled_w)/2), floor((H - scaled_h)/2), both >= 0.
C17_FitsInsideCanvas ==
    prep_result # <<>> =>
        LET r == prep_result[1]
            c == prep_call
        IN /\ r.outcome = "ok"
           /\ r.size = <<c.target_w, c.target_h>>
           /\ r.new_w >= 1 /\ r.new_w <= c.target_w
           /\ r.new_h >= 1 /\ r.new_h <= c.target_h
           /\ Dist(r.new_w * c.h, r.new_h * c.w) <= (IF c.w > c.h THEN c.w ELSE c.h)
           /\ r.paste_x = (c.target_w - r.new_w) \div 2 /\ r.paste_x >= 0
           /\ r.paste_y = (c.target_h - r.new_h) \div 2 /\ r.paste_y >= 0

\* --------------------------------------------------------------------- C18
\* the errors that name the empty frame list
EmptySequenceErrors ==
    {"ValueError: No frames to create video",
     "ValueError: No frames provided for video creation"}

\* C18: every encoder of the repository answers an empty frame list with an
\* error of its own for the empty sequence, raised before an output file is
\* opened or written.
C18_EmptyFramesRejected ==
    (pc \in {"raised", "returned"} /\ frames = <<>>)
        => /\ pc = "raised"
           /\ err \in EmptySequenceErrors
           /\ writer = "none" /\ written = <<>> /\ file = "none" /\ stray = 0

\* --------------------------------------------------------------------- C19
\* C19: when the video writer could not be opened, the encoder ends with an
\* error; it returns neither a video string, empty or not, nor an upload
\* result.
C19_UnopenedWriterFails ==
    (pc \in {"raised", "returned"} /\ writer = "released_unopened"
        /\ variant \in {Serverless, Legacy})
        => pc = "raised" /\ video_result = "none"

\* --------------------------------------------------------------------- C20
\* the value given for an image: the *_url field when it is there, the plain
\* field otherwise
Given(j, url_field, field) == IF Present(j, url_field) THEN j[url_field] ELSE j[field]

\* what a value is by its own form: an HTTP(S) URL to fetch, or a data-URL or
\* raw base64 text to decode
OwnForm(v) ==
    CASE v = "http"            -> "http"
      [] v \in {"data", "b64"} -> "data_ok"
      [] OTHER                 -> "bad"

\* C20: handler.serverless.py resolves the two images independently: whenever
\* the source is given in source_image or source_image_url and the target in
\* target_image or target_image_url, the request reaches generation and each
\* image is read according to its own form.
C20_IndependentResolution ==
    (/\ variant = Serverless /\ pc # "idle"
     /\ GenerationRequest(job)
     /\ ~SourceAbsent(job) /\ ~TargetAbsent(job))
        => /\ ServerlessResolve(job).ok
           /\ SourceForm = OwnForm(Given(job, "source_image_url", "source_image"))
           /\ TargetForm = OwnForm(Given(job, "target_image_url", "target_image"))
           /\ pc = "done" => nDecode.source >= 1

\* --------------------------------------------------------------------- C21
\* C21: main.py loads a source_image / target_image that is the base64 text of
\* an image, raw or behind a data-URL prefix, whatever its length: the request
\* gets past preprocess_images with both images and is not answered with the
\* image-processing failure.
C21_Base64ImageLoads ==
    (/\ variant = Main /\ pc = "done"
     /\ job.source_image \in {"b64", "data"} /\ job.target_image \in {"b64", "data"}
     /\ nDecode.source >= 1)
        => /\ src = "image" /\ tgt = "image"
           /\ Get(resp, "error", "none") # "Image processing error"

\* --------------------------------------------------------------------- C22
\* C22: whenever the requested model is not available after load_kiss_models,
\* main.py's handler answers with status "failed", the model-not-available
\* error and the list of available models, whether or not the images of the
\* job can be loaded.
C22_ModelUnavailableReported ==
    (/\ variant = Main /\ pc = "done"
     /\ nDecode.source >= 1
     /\ model_name \notin DOMAIN models \/ ~models[model_name])
        => /\ Status = "failed"
           /\ Get(resp, "error", "none") = "Model not available"
           /\ Has(resp, "available_models")

\* --------------------------------------------------------------------- C23
\* C23: create_morphing_video of handler.py finds every name it uses bound in
\* the scope it runs in, builds its frames and returns a video for two valid
\* images; it does not end with a NameError.
C23_MorphingVideoRuns ==
    (variant = Basic /\ nFallback >= 1 /\ pc \notin {"morph", "idle"})
        => /\ MorphingNames \subseteq ModuleNames(Basic)
           /\ Len(morph) = MorphFrames
           /\ Get(resp, "error", "none") # "NameError"

LoadSucceeded == {"mock", "real"}

\* what holds of the cache in every state of a request
C25_CacheState ==
    /\ model_cache \in {"empty"} \cup LoadSucceeded
    /\ loadOutcome = "cached" => model_cache # "empty" /\ pipeline = model_cache
    /\ loadOutcome \in LoadSucceeded => model_cache = loadOutcome
    /\ loadOutcome \in {"missing", "cuda_old", "no_config", "real_raises"}
          => model_cache = "empty"

\* what holds of every step
C25_CacheStep ==
    /\ model_cache # "empty" => model_cache' = model_cache
    /\ model_cache' # model_cache
          => /\ pc = "load" /\ model_cache = "empty"
             /\ loadOutcome' \in LoadSucceeded
             /\ model_cache' = loadOutcome' /\ pipeline' = loadOutcome'
    /\ (pc = "load" /\ model_cache # "empty")
          => loadOutcome' = "cached" /\ pipeline' = model_cache
    /\ (pc = "load" /\ model_cache = "empty")
          => loadOutcome' \in LoadOutcomes(variant)

\* C25: across the requests of one worker, _model_cache of
\* handler.serverless.py, handler_serverless.py and handler.production.py holds
\* a pipeline exactly when an earlier load succeeded: a failed load leaves it
\* empty (the next request loads again), a load is attempted only while it is
\* empty, and an entry, once set, is what every later call returns and is
\* never replaced or removed.
C25_CacheSetOnceBySuccess ==
    /\ [](variant \in {Serverless, Legacy, Production} => C25_CacheState)
    /\ [][(variant \in {Serverless, Legacy, Production}) => C25_CacheStep]_vars

\* a later request that is served from the cache, after its first frame
C25_Witness ==
    /\ variant = Production /\ pc = "frames"
    /\ loadOutcome = "cached" /\ model_cache = "real" /\ pipeline = "real"
    /\ Len(frames) = 1

\* --------------------------------------------------------------------- C26
\* what holds in every state of a request of handler_real_ai.py
C26_CacheState ==
    /\ pc \in {"preprocess", "frames", "encode", "package"} => model_cache # "empty"
    /\ loadOutcome = "wan_model" => model_cache = "wan_model"
    /\ loadOutcome = "load_failed" => model_cache = "morph_model"
    /\ loadOutcome = "cached" => pipeline = model_cache
    /\ (pc = "done" /\ job.input = "dict" /\ job.health_check)
          => /\ Status = "healthy"
             /\ resp.models_loaded = (model_cache # "empty")

\* what holds of every step
C26_CacheStep ==
    /\ model_cache # "empty" => model_cache' = model_cache
    /\ pc = "load"
          => /\ pc' = "preprocess"
             /\ model_cache' # "empty"
             /\ pipeline' = model_cache'
    /\ (pc = "load" /\ model_cache # "empty") => loadOutcome' = "cached"

\* C26: in handler_real_ai.py load_real_ai_models never raises and always
\* leaves _model_cache["wan_model"] set: after one failed load the morphing
\* stand-in stays cached, no later request attempts the real load, and the
\* health check reports models_loaded = true from then on.
C26_StandInStaysCached ==
    /\ [](variant = RealAi => C26_CacheState)
    /\ [][(variant = RealAi) => C26_CacheStep]_vars

\* a health check answered after a load that failed
C26_Witness ==
    /\ variant = RealAi /\ pc = "done"
    /\ job.health_check
    /\ model_cache = "morph_model"
    /\ resp.models_loaded = TRUE

\* --------------------------------------------------------------------- C27
\* the directory states from which a model may be reported loaded
ReportableDirs == {"volume", "downloaded"}

\* C27: main.py reports a model as loaded only if its directory was populated
\* before the worker started or its download reported success before the
\* timeout; files written by a download that timed out never make this or a
\* later load_kiss_models call report the model as loaded.
C27_LoadedOnlyFromCompleteDirs ==
    (variant = Main /\ loadOutcome = "returned")
        => \A k \in ModelKeys :
              models[k] => model_dirs[k] \in ReportableDirs

\* --------------------------------------------------------------------- C28
\* C28: load_kiss_models returns a dict with both keys "wan_ai" and
\* "remade_ai", and "remade_ai" is not None only if "wan_ai" is not None, for
\* every combination of present and absent model directories and of download
\* outcomes.
C28_BothKeysLoraNeedsBase ==
    (variant = Main /\ loadOutcome = "returned")
        => /\ DOMAIN models = ModelKeys
           /\ models.remade_ai => models.wan_ai

\* the LoRA directory is populated, the base model is not and its download
\* failed: both entries are None
C28_Witness ==
    /\ variant = Main /\ loadOutcome = "returned" /\ pc = "main_preprocess"
    /\ model_dirs.remade_ai = "volume"
    /\ model_dirs.wan_ai = "empty"
    /\ ~models.wan_ai /\ ~models.remade_ai

\* --------------------------------------------------------------------- C29
\* every condition the health check tests is true in the environment the
\* probes reported (torch is imported at the top of both scripts, so it is
\* available whenever the handler runs)
AllConditionsTrue(r) ==
    /\ Has(r, "environment")
    /\ r.environment.cuda_available
    /\ r.environment.volume_mounted
    /\ r.environment.wan_model_exists

\* C29: health_check of handler.production.py and of handler.serverless.py
\* returns status "healthy" exactly when every condition it tests is true in
\* the environment, and "unhealthy" otherwise.
C29_HealthyIffAllTrue ==
    (/\ pc = "done" /\ variant \in {Production, Serverless}
     /\ job.input = "dict" /\ job.health_check)
        => /\ Status \in {"healthy", "unhealthy"}
           /\ Status = "healthy" <=> AllConditionsTrue(resp)

\* --------------------------------------------------------------------- C30
\* the debug values handler.serverless.py knows
RecognisedDebug == {"check_volume", "check_gpu", "check_models"}

\* a job whose input sets health_check, test_mode or a recognised debug value
ControlRequest(j) ==
    j.input = "dict" /\ (j.health_check \/ j.test_mode \/ j.debug \in RecognisedDebug)

\* the statuses of the request kinds, by precedence
StatusesOfKind(j) ==
    IF j.health_check THEN {"healthy", "unhealthy"}
    ELSE IF j.test_mode THEN {"success", "error"}
    ELSE CASE j.debug = "check_volume" -> {"debug_complete", "debug_error"}
           [] j.debug = "check_gpu"    -> {"gpu_debug_complete", "gpu_debug_error"}
           [] OTHER                    -> {"model_debug_complete", "model_debug_error"}

\* the request has been answered and nothing of a generation has happened
C30_ControlState ==
    (pc # "idle" /\ ControlRequest(job))
        => /\ pc = "done"
           /\ Status \in StatusesOfKind(job)
           /\ nDecode = [source |-> 0, target |-> 0] /\ src = "none" /\ tgt = "none"
           /\ nLoad = 0 /\ pipeline = "none"
           /\ nCalls = 0 /\ frames = <<>> /\ morph = <<>>
           /\ writer = "none" /\ written = <<>> /\ file = "none"
           /\ nUpload = 0 /\ video_result = "none"
           /\ ~Has(resp, "video") /\ ~Has(resp, "video_url")

\* the step that answers it leaves the cache alone
C30_ControlStep ==
    (pc = "idle" /\ ControlRequest(job'))
        => pc' = "done" /\ model_cache' = model_cache

\* C30: handler.serverless.py dispatches with the precedence health_check,
\* test_mode, debug, video generation: a job that sets health_check, test_mode
\* or a recognised debug value is answered without an image download, a model
\* load, frame generation, encoding or upload, and with _model_cache
\* unchanged, also when image fields are present.
C30_ControlBeforeGeneration ==
    /\ [](variant = Serverless => C30_ControlState)
    /\ [][(variant = Serverless) => C30_ControlStep]_vars

\* a job with every flag and both image URLs, on a worker whose cache is set:
\* answered as a health check
C30_Witness ==
    /\ variant = Serverless /\ pc = "done"
    /\ job.health_check /\ job.test_mode /\ job.debug = "check_gpu"
    /\ job.source_image_url = "http" /\ job.target_image_url = "http"
    /\ model_cache = "mock"
    /\ Status = "healthy"

====
